---- MODULE Spec2Model ----
(***************************************************************************)
(* ciris-fix-permissions: the setuid-root helper that normalises owner and *)
(* mode of the six standard subdirectories of one CIRIS agent directory.   *)
(*                                                                         *)
(* The model has three parts: the file system the helper runs against      *)
(* (inodes, directory entries, symlinks, path resolution), the helper      *)
(* itself (main and fix_directory_permissions_recursive, one action per    *)
(* system call), and the properties checked against it.                    *)
(*                                                                         *)
(* Paths are sequences of tokens, "/" being a token of its own, so that    *)
(* strncmp and snprintf("%s/%s") are computed on the text and the kernel's *)
(* resolution (.., symlinks) is computed separately on the tree.  The      *)
(* buffers path[512] and full_path[1024] are not modelled: every path of   *)
(* the model is far shorter.                                               *)
(*                                                                         *)
(* Spec runs the helper twice in succession on one tree, the same calls    *)
(* failing in both runs; SpecConc runs two invocations at once.            *)
(***************************************************************************)
EXTENDS Integers, Sequences, FiniteSets, TLC

VARIABLES
    env,      \* what the run is given: layout, readdir order, failing calls, argc, argv
    meta,     \* meta[w][i]: mode, uid and gid of inode i in file system w
    pc,       \* pc[p]: the statement process p is at
    stack,    \* stack[p]: frames of fix_directory_permissions_recursive, innermost first
    failed,   \* failed[p]: main's local flag
    stage,    \* stage[p]: which of the six subdirectories main handles next
    exitc,    \* exitc[p]: the exit code, -1 while running
    euid,     \* euid[p]: effective uid
    calls,    \* calls[p]: history of the system calls and returns of this run
    invoked,  \* invoked[p]: history of the paths main passed to the normaliser
    visits,   \* visits[p][i]: history, how often directory i was opened
    run,      \* number of the current invocation of process 1
    snap      \* meta and exit code at the end of the first invocation

vars == <<env, meta, pc, stack, failed, stage, exitc, euid, calls, invoked, visits, run, snap>>

(***************************************************************************)
(* Bounds of the model.                                                    *)
(***************************************************************************)
\* nesting depth of the trees below data and audit_keys
MaxDepth == 1
\* how many distinct system calls the environment makes fail
MaxFail == 1

(***************************************************************************)
(* Program constants.                                                      *)
(***************************************************************************)
Oct(a, b, c) == a * 64 + b * 8 + c

AGENT_BASE_PATH == <<"/", "opt", "/", "ciris", "/", "agents", "/">>
CONTAINER_UID == 1000
CONTAINER_GID == 1000

\* the six subdirectories in the order main handles them
SubNames == <<"data", "data_archive", "logs", "config", "audit_keys", ".secrets">>

\* the mode main passes for the i-th subdirectory
TopMode(i) == IF i <= 4 THEN Oct(7, 5, 5) ELSE Oct(7, 0, 0)

\* fix_directory_permissions: the file mode that goes with a directory mode
FileMode(mode) == IF mode = Oct(7, 0, 0) THEN Oct(6, 0, 0) ELSE Oct(6, 4, 4)

(***************************************************************************)
(* The file system.  An inode is <<area, role, depth>>.                    *)
(*   /srv/data/db                    outside the base path                 *)
(*   /opt/ciris/agents/a1            the agent directory                   *)
(*   a1/<six names>                  one of them may be missing, a regular *)
(*                                   file or a symlink (env.lay)           *)
(*   a1/data, a1/audit_keys          hold, MaxDepth levels deep, a regular *)
(*                                   file "file", a symlink "link" and a   *)
(*                                   directory "sub"                       *)
(***************************************************************************)
Nil == <<"-", "nil", 0>>
Root == <<"-", "root", 0>>
Srv == <<"-", "srv", 0>>
SrvData == <<"-", "srvdata", 0>>
SrvDb == <<"-", "srvdb", 0>>
Opt == <<"-", "opt", 0>>
Ciris == <<"-", "ciris", 0>>
Agents == <<"-", "agents", 0>>
A1 == <<"-", "a1", 0>>

Subs == {SubNames[i] : i \in 1..Len(SubNames)}
Content == {"data", "audit_keys"}
Top(s) == <<s, "top", 0>>
DirAt(c, k) == IF k = 0 THEN Top(c) ELSE <<c, "sub", k>>
FileAt(c, k) == <<c, "file", k>>
LinkAt(c, k) == <<c, "link", k>>

Skeleton == {Root, Srv, SrvData, SrvDb, Opt, Ciris, Agents, A1}
Inodes ==
    Skeleton \cup {Top(s) : s \in Subs}
    \cup {DirAt(c, k) : c \in Content, k \in 1..MaxDepth}
    \cup {FileAt(c, k) : c \in Content, k \in 1..MaxDepth}
    \cup {LinkAt(c, k) : c \in Content, k \in 1..MaxDepth}

Sibling(s) == IF s = "audit_keys" THEN "data" ELSE "audit_keys"

\* file type of inode i in layout lay
Kind(lay, i) ==
    IF i = Nil THEN "none"
    ELSE IF i = SrvDb THEN "reg"
    ELSE IF i \in Skeleton THEN "dir"
    ELSE IF i[2] = "top" THEN
        IF i[1] # lay.special THEN "dir"
        ELSE IF lay.skind = "missing" THEN "none"
        ELSE IF lay.skind = "reg" THEN "reg"
        ELSE "lnk"
    ELSE IF i[2] = "sub" THEN "dir"
    ELSE IF i[2] = "file" THEN "reg"
    ELSE "lnk"

\* the inode entry name of directory d refers to, Nil when there is none
Lookup(lay, d, name) ==
    IF d = Root THEN (IF name = "srv" THEN Srv ELSE IF name = "opt" THEN Opt ELSE Nil)
    ELSE IF d = Srv THEN (IF name = "data" THEN SrvData ELSE Nil)
    ELSE IF d = SrvData THEN (IF name = "db" THEN SrvDb ELSE Nil)
    ELSE IF d = Opt THEN (IF name = "ciris" THEN Ciris ELSE Nil)
    ELSE IF d = Ciris THEN (IF name = "agents" THEN Agents ELSE Nil)
    ELSE IF d = Agents THEN (IF name = "a1" THEN A1 ELSE Nil)
    ELSE IF d = A1 THEN
        (IF name \in Subs /\ Kind(lay, Top(name)) # "none" THEN Top(name) ELSE Nil)
    ELSE IF d[1] \in Content /\ d[2] \in {"top", "sub"} /\ d[3] < MaxDepth
            /\ Kind(lay, d) = "dir" THEN
        (IF name = "sub" THEN DirAt(d[1], d[3] + 1)
         ELSE IF name = "file" THEN FileAt(d[1], d[3] + 1)
         ELSE IF name = "link" THEN LinkAt(d[1], d[3] + 1)
         ELSE Nil)
    ELSE Nil

\* the directory that holds inode i (the root holds itself)
Parent(i) ==
    IF i \in {Root, Srv, Opt} THEN Root
    ELSE IF i = SrvData THEN Srv
    ELSE IF i = SrvDb THEN SrvData
    ELSE IF i = Ciris THEN Opt
    ELSE IF i = Agents THEN Ciris
    ELSE IF i = A1 THEN Agents
    ELSE IF i[2] = "top" THEN A1
    ELSE DirAt(i[1], i[3] - 1)

\* what symlink i points to, Nil for a dangling link
LinkTarget(lay, i) ==
    IF i[2] = "top" THEN
        (IF lay.skind = "lnk_out" THEN Srv ELSE Top(Sibling(i[1])))
    ELSE IF lay.inner = "loop" THEN DirAt(i[1], i[3] - 1)
    ELSE IF lay.inner = "out" THEN Srv
    ELSE Nil

RECURSIVE FollowLink(_, _, _)
\* the inode symlink i leads to; Nil for a dangling link or too many hops (ELOOP)
FollowLink(lay, i, hops) ==
    IF Kind(lay, i) # "lnk" THEN i
    ELSE IF hops = 0 \/ LinkTarget(lay, i) = Nil THEN Nil
    ELSE FollowLink(lay, LinkTarget(lay, i), hops - 1)

Comps(path) == SelectSeq(path, LAMBDA t : t # "/")

RECURSIVE Walk(_, _, _, _)
\* the kernel's walk over path components comps from directory cur; the last
\* component's symlink is followed only when follow is set
Walk(lay, cur, comps, follow) ==
    IF comps = <<>> THEN cur
    ELSE IF Kind(lay, cur) # "dir" THEN Nil
    ELSE LET c == Head(comps)
             nxt == IF c = "." THEN cur
                    ELSE IF c = ".." THEN Parent(cur)
                    ELSE Lookup(lay, cur, c)
             res == IF Len(comps) > 1 \/ follow THEN FollowLink(lay, nxt, 8) ELSE nxt
         IN  IF nxt = Nil \/ res = Nil THEN Nil ELSE Walk(lay, res, Tail(comps), follow)

\* the inode an absolute path names, Nil when resolution fails
Resolve(lay, path, follow) ==
    IF path = <<>> \/ Head(path) # "/" THEN Nil
    ELSE Walk(lay, Root, Comps(path), follow)

RECURSIVE UnderBase(_)
\* inode i lies below /opt/ciris/agents/ in the real directory tree
UnderBase(i) ==
    IF i = Root \/ i = Nil THEN FALSE
    ELSE IF Parent(i) = Agents THEN TRUE
    ELSE UnderBase(Parent(i))

(***************************************************************************)
(* What a run is given.                                                    *)
(***************************************************************************)
AgentDir == AGENT_BASE_PATH \o <<"a1">>

\* the values of argv[1]
Args == {
    AgentDir,
    AGENT_BASE_PATH \o <<"..", "/", "..", "/", "..", "/", "srv">>,
    AGENT_BASE_PATH,
    AGENT_BASE_PATH \o <<"nope">>,
    AgentDir \o <<"/", "data", "/", "file">>,
    <<"/", "srv">>,
    <<"/", "opt">>,
    <<"/", "opt", "/", "ciris", "/", "agents">> }

PlainLayout == [special |-> "none", skind |-> "dir", inner |-> "loop"]

Layouts ==
    {[special |-> "none", skind |-> "dir", inner |-> i] : i \in {"loop", "out", "dangling"}}
    \cup {[special |-> s, skind |-> "missing", inner |-> "loop"] : s \in Subs}
    \cup {[special |-> s, skind |-> k, inner |-> i] :
            s \in {"data", "logs", "audit_keys"},
            k \in {"reg", "lnk_out", "lnk_sib"},
            i \in {"loop", "out"}}

\* the order in which readdir returns the names of a directory
ReaddirOrders == {
    <<".", "..", "file", "link", "sub", "db", "data", "data_archive", "logs",
      "config", "audit_keys", ".secrets", "a1", "agents", "ciris", "opt", "srv">>,
    <<"srv", "opt", ".secrets", "audit_keys", "sub", "config", "logs", "link", "..",
      "data_archive", "data", "db", "file", ".", "ciris", "agents", "a1">> }

Join(path, name) == path \o <<"/", name>>

\* the calls the environment may make fail (EIO, EPERM on an immutable file, ENOMEM)
FailCands == {
    <<"setuid", <<>> >>,
    <<"chmod", Join(AgentDir, "data")>>,
    <<"chown", Join(AgentDir, "audit_keys")>>,
    <<"opendir", Join(AgentDir, "data")>>,
    <<"lstat", Join(Join(AgentDir, "data"), "file")>>,
    <<"lchown", Join(Join(AgentDir, "audit_keys"), "file")>>,
    <<"chmod", Join(Join(AgentDir, "data"), "file")>>,
    <<"chmod", Join(Join(AgentDir, "audit_keys"), "sub")>>,
    <<"opendir", Join(Join(AgentDir, "audit_keys"), "sub")>>,
    <<"lchown", Join(Join(AgentDir, "data"), "link")>> }

FailSets == {S \in SUBSET FailCands : Cardinality(S) <= MaxFail}

\* every object starts owned by root with mode 0777
InitMeta == [i \in Inodes |-> [mode |-> Oct(7, 7, 7), uid |-> 0, gid |-> 0]]

FirstOrder == CHOOSE o \in ReaddirOrders : o[1] = "."

\* the agent directory in every layout with every set of failing calls (the second
\* readdir order with the plain layouts and with no call failing); the other
\* arguments and argument counts on the plain layout
Envs ==
    {[lay |-> l, order |-> o, failset |-> f, argc |-> 2, argv |-> AgentDir] :
        l \in {x \in Layouts : x.special = "none"}, o \in ReaddirOrders, f \in FailSets}
    \cup {[lay |-> l, order |-> FirstOrder, failset |-> f, argc |-> 2, argv |-> AgentDir] :
            l \in Layouts, f \in FailSets}
    \cup {[lay |-> l, order |-> o, failset |-> {}, argc |-> 2, argv |-> AgentDir] :
            l \in Layouts, o \in ReaddirOrders}
    \cup {[lay |-> PlainLayout, order |-> o, failset |-> f, argc |-> 2, argv |-> a] :
            o \in ReaddirOrders, f \in {{}, {<<"setuid", <<>> >>}}, a \in Args}
    \cup {[lay |-> PlainLayout, order |-> o, failset |-> {}, argc |-> n, argv |-> AgentDir] :
            o \in ReaddirOrders, n \in {1, 3}}

World(p) == IF p = 3 THEN 2 ELSE 1

InitProcs(P) ==
    /\ pc = [p \in P |-> "main"]
    /\ stack = [p \in P |-> <<>>]
    /\ failed = [p \in P |-> FALSE]
    /\ stage = [p \in P |-> 0]
    /\ exitc = [p \in P |-> -1]
    /\ euid = [p \in P |-> 1001]    \* the invoking user, neither root nor the container user
    /\ calls = [p \in P |-> {}]
    /\ invoked = [p \in P |-> <<>>]
    /\ visits = [p \in P |-> [i \in Inodes |-> 0]]

Init ==
    /\ env \in Envs
    /\ meta = [w \in {1} |-> InitMeta]
    /\ InitProcs({1})
    /\ run = 1
    /\ snap = [meta |-> InitMeta, exitc |-> -1]

(***************************************************************************)
(* The system calls.                                                       *)
(***************************************************************************)
Rec(op, path, obj, ok) == [op |-> op, path |-> path, obj |-> obj, ok |-> ok]

\* strncmp(a, b, n) == 0
StrnEq(a, b, n) ==
    LET Take(s) == SubSeq(s, 1, IF Len(s) < n THEN Len(s) ELSE n)
    IN  Take(a) = Take(b)

\* the length mistaken for that of the argument
PathAllowedArgLen(agent_dir) == StrnEq(agent_dir, AGENT_BASE_PATH, Len(agent_dir))

\* main's security check: strncmp(agent_dir, AGENT_BASE_PATH, strlen(AGENT_BASE_PATH)) == 0
PathAllowed(agent_dir) == StrnEq(agent_dir, AGENT_BASE_PATH, Len(AGENT_BASE_PATH))

\* the environment makes this call fail
Injected(op, path) == <<op, path>> \in env.failset

\* chmod, chown and lchown change objects of root: they need euid 0
Privileged(p) == euid[p] = 0

\* the mode added to the old one instead of replacing it
ChmodResultAdded(old, mode) == (old + mode) % 4096

\* chmod sets the mode absolutely
ChmodResult(old, mode) == mode

SetMode(p, obj, mode) ==
    meta' = [meta EXCEPT ![World(p)][obj].mode = ChmodResult(@, mode)]

SetOwner(p, obj) ==
    meta' = [meta EXCEPT ![World(p)][obj].uid = CONTAINER_UID,
                         ![World(p)][obj].gid = CONTAINER_GID]

\* what readdir returns for directory d, "." and ".." included
Listing(d) ==
    SelectSeq(env.order, LAMBDA n : n \in {".", ".."} \/ Lookup(env.lay, d, n) # Nil)

(***************************************************************************)
(* Return values of fix_directory_permissions_recursive.                   *)
(***************************************************************************)
ChmodFailRet == -1
LoopEndRet == 0
\* a failed chown of the directory taken for success
ChownFailIgnored == LoopEndRet
ChownFailRet == -1
\* a failed opendir taken for an error
OpendirFailError == ChmodFailRet
OpendirFailRet == 0

\* main gives up at the first subdirectory that fails
NextStageAbort(i, r) == IF r # 0 THEN Len(SubNames) + 1 ELSE i + 1

\* main goes on to the next subdirectory whatever the last one returned
NextStage(i, r) == i + 1

Frame(path, dir_mode, file_mode) ==
    [path |-> path, dir_mode |-> dir_mode, file_mode |-> file_mode,
     pending |-> <<>>, entry |-> "", st |-> "none"]

Top1(p) == Head(stack[p])
FullPath(p) == Join(Top1(p).path, Top1(p).entry)

Goto(p, label) == pc' = [pc EXCEPT ![p] = label]
AddCalls(p, recs) == calls' = [calls EXCEPT ![p] = @ \cup recs]

\* exit from main
Exit(p, code) ==
    /\ Goto(p, "done")
    /\ exitc' = [exitc EXCEPT ![p] = code]

\* return r from the innermost frame, to main (which sets failed) or to the
\* recursive call of line 80 (which drops r)
Return(p, r, recs) ==
    /\ AddCalls(p, recs \cup {Rec("ret", Top1(p).path, Nil, r = 0)})
    /\ stack' = [stack EXCEPT ![p] = Tail(@)]
    /\ IF Len(stack[p]) = 1
       THEN /\ failed' = [failed EXCEPT ![p] = @ \/ r # 0]
            /\ stage' = [stage EXCEPT ![p] = NextStage(@, r)]
            /\ Goto(p, "top")
       ELSE /\ UNCHANGED <<failed, stage>>
            /\ Goto(p, "readdir")

(***************************************************************************)
(* main                                                                    *)
(***************************************************************************)
\* lines 101-112: argument count and prefix
MainArgs(p) ==
    /\ pc[p] = "main"
    /\ IF env.argc # 2 \/ ~PathAllowed(env.argv)
       THEN Exit(p, 1)
       ELSE Goto(p, "stat") /\ UNCHANGED exitc
    /\ UNCHANGED <<env, meta, stack, failed, stage, euid, calls, invoked, visits, run, snap>>

\* lines 115-124: stat(agent_dir) and S_ISDIR
MainStat(p) ==
    /\ pc[p] = "stat"
    /\ LET o == Resolve(env.lay, env.argv, TRUE)
       IN  /\ AddCalls(p, {Rec("stat", env.argv, o, o # Nil)})
           /\ IF o = Nil \/ Kind(env.lay, o) # "dir"
              THEN Exit(p, 1)
              ELSE Goto(p, "setuid") /\ UNCHANGED exitc
    /\ UNCHANGED <<env, meta, stack, failed, stage, euid, invoked, visits, run, snap>>

\* lines 127-134: setuid(0), failed = 0
MainSetuid(p) ==
    /\ pc[p] = "setuid"
    /\ LET ok == ~Injected("setuid", <<>>)
       IN  /\ AddCalls(p, {Rec("setuid", <<>>, Nil, ok)})
           /\ IF ok
              THEN /\ euid' = [euid EXCEPT ![p] = 0]
                   /\ failed' = [failed EXCEPT ![p] = FALSE]
                   /\ stage' = [stage EXCEPT ![p] = 1]
                   /\ Goto(p, "top")
                   /\ UNCHANGED exitc
              ELSE /\ Exit(p, 1)
                   /\ UNCHANGED <<euid, failed, stage>>
    /\ UNCHANGED <<env, meta, stack, invoked, visits, run, snap>>

\* lines 137-158: snprintf the path of the next subdirectory, call the normaliser
MainCall(p) ==
    /\ pc[p] = "top"
    /\ stage[p] <= Len(SubNames)
    /\ LET path == Join(env.argv, SubNames[stage[p]])
           mode == TopMode(stage[p])
       IN  /\ stack' = [stack EXCEPT ![p] = <<Frame(path, mode, FileMode(mode))>>]
           /\ invoked' = [invoked EXCEPT ![p] = Append(@, path)]
    /\ Goto(p, "chmod")
    /\ UNCHANGED <<env, meta, failed, stage, exitc, euid, calls, visits, run, snap>>

\* lines 160-166: the exit code
MainReport(p) ==
    /\ pc[p] = "top"
    /\ stage[p] > Len(SubNames)
    /\ Exit(p, IF failed[p] THEN 1 ELSE 0)
    /\ UNCHANGED <<env, meta, stack, failed, stage, euid, calls, invoked, visits, run, snap>>

(***************************************************************************)
(* fix_directory_permissions_recursive                                     *)
(***************************************************************************)
\* lines 37-40: chmod(path, dir_mode)
FixChmod(p) ==
    /\ pc[p] = "chmod"
    /\ LET f == Top1(p)
           o == Resolve(env.lay, f.path, TRUE)
           ok == o # Nil /\ Privileged(p) /\ ~Injected("chmod", f.path)
           rec == Rec("chmod", f.path, o, ok)
       IN  IF ok
           THEN /\ SetMode(p, o, f.dir_mode)
                /\ AddCalls(p, {rec})
                /\ Goto(p, "chown")
                /\ UNCHANGED <<stack, failed, stage>>
           ELSE /\ Return(p, ChmodFailRet, {rec})
                /\ UNCHANGED meta
    /\ UNCHANGED <<env, exitc, euid, invoked, visits, run, snap>>

\* lines 43-46: chown(path, CONTAINER_UID, CONTAINER_GID)
FixChown(p) ==
    /\ pc[p] = "chown"
    /\ LET f == Top1(p)
           o == Resolve(env.lay, f.path, TRUE)
           ok == o # Nil /\ Privileged(p) /\ ~Injected("chown", f.path)
           rec == Rec("chown", f.path, o, ok)
       IN  IF ok
           THEN /\ SetOwner(p, o)
                /\ AddCalls(p, {rec})
                /\ Goto(p, "opendir")
                /\ UNCHANGED <<stack, failed, stage>>
           ELSE /\ Return(p, ChownFailRet, {rec})
                /\ UNCHANGED meta
    /\ UNCHANGED <<env, exitc, euid, invoked, visits, run, snap>>

\* lines 49-53: opendir(path)
FixOpendir(p) ==
    /\ pc[p] = "opendir"
    /\ LET f == Top1(p)
           o == Resolve(env.lay, f.path, TRUE)
           ok == o # Nil /\ Kind(env.lay, o) = "dir" /\ ~Injected("opendir", f.path)
           rec == Rec("opendir", f.path, o, ok)
       IN  IF ok
           THEN /\ stack' = [stack EXCEPT ![p][1].pending = Listing(o)]
                /\ visits' = [visits EXCEPT ![p][o] = @ + 1]
                /\ AddCalls(p, {rec})
                /\ Goto(p, "readdir")
                /\ UNCHANGED <<failed, stage>>
           ELSE /\ Return(p, OpendirFailRet, {rec})
                /\ UNCHANGED visits
    /\ UNCHANGED <<env, meta, exitc, euid, invoked, run, snap>>

\* lines 56-63 and 89-90: readdir, the skip of . and .., snprintf of full_path;
\* closedir and return 0 at the end of the directory
FixReaddir(p) ==
    /\ pc[p] = "readdir"
    /\ LET f == Top1(p)
       IN  IF f.pending = <<>>
           THEN Return(p, LoopEndRet, {})
           ELSE /\ stack' = [stack EXCEPT ![p][1].pending = Tail(@),
                                          ![p][1].entry = Head(f.pending)]
                /\ Goto(p, IF Head(f.pending) \in {".", ".."} THEN "readdir" ELSE "lstat")
                /\ UNCHANGED <<failed, stage, calls>>
    /\ UNCHANGED <<env, meta, exitc, euid, invoked, visits, run, snap>>

\* lines 65-69: lstat(full_path, &st)
EntryLstat(p) ==
    /\ pc[p] = "lstat"
    /\ LET o == Resolve(env.lay, FullPath(p), FALSE)
           ok == o # Nil /\ ~Injected("lstat", FullPath(p))
       IN  /\ AddCalls(p, {Rec("lstat", FullPath(p), o, ok)})
           /\ IF ok
              THEN /\ stack' = [stack EXCEPT ![p][1].st = Kind(env.lay, o)]
                   /\ Goto(p, "lchown")
              ELSE /\ Goto(p, "readdir")
                   /\ UNCHANGED stack
    /\ UNCHANGED <<env, meta, failed, stage, exitc, euid, invoked, visits, run, snap>>

\* lines 72-75: lchown(full_path, CONTAINER_UID, CONTAINER_GID)
EntryLchown(p) ==
    /\ pc[p] = "lchown"
    /\ LET o == Resolve(env.lay, FullPath(p), FALSE)
           ok == o # Nil /\ Privileged(p) /\ ~Injected("lchown", FullPath(p))
       IN  /\ AddCalls(p, {Rec("lchown", FullPath(p), o, ok)})
           /\ IF ok
              THEN SetOwner(p, o) /\ Goto(p, "mode")
              ELSE Goto(p, "readdir") /\ UNCHANGED meta
    /\ UNCHANGED <<env, stack, failed, stage, exitc, euid, invoked, visits, run, snap>>

\* lines 78-86: a directory is recursed into, a regular file gets file_mode,
\* anything else keeps its mode
EntryMode(p) ==
    /\ pc[p] = "mode"
    /\ LET f == Top1(p)
           o == Resolve(env.lay, FullPath(p), TRUE)
           ok == o # Nil /\ Privileged(p) /\ ~Injected("chmod", FullPath(p))
       IN  IF f.st = "dir"
           THEN /\ stack' = [stack EXCEPT ![p] = <<Frame(FullPath(p), f.dir_mode, f.file_mode)>> \o @]
                /\ Goto(p, "chmod")
                /\ UNCHANGED <<meta, calls>>
           ELSE IF f.st = "reg"
           THEN /\ AddCalls(p, {Rec("chmod", FullPath(p), o, ok)})
                /\ IF ok THEN SetMode(p, o, f.file_mode) ELSE UNCHANGED meta
                /\ Goto(p, "readdir")
                /\ UNCHANGED stack
           ELSE /\ Goto(p, "readdir")
                /\ UNCHANGED <<meta, calls, stack>>
    /\ UNCHANGED <<env, failed, stage, exitc, euid, invoked, visits, run, snap>>

Step(p) ==
    \/ MainArgs(p)
    \/ MainStat(p)
    \/ MainSetuid(p)
    \/ MainCall(p)
    \/ MainReport(p)
    \/ FixChmod(p)
    \/ FixChown(p)
    \/ FixOpendir(p)
    \/ FixReaddir(p)
    \/ EntryLstat(p)
    \/ EntryLchown(p)
    \/ EntryMode(p)

\* the helper is invoked a second time on the tree the first run left
Invoke ==
    /\ pc[1] = "done"
    /\ run = 1
    /\ run' = 2
    /\ snap' = [meta |-> meta[1], exitc |-> exitc[1]]
    /\ pc' = [pc EXCEPT ![1] = "main"]
    /\ stack' = [stack EXCEPT ![1] = <<>>]
    /\ failed' = [failed EXCEPT ![1] = FALSE]
    /\ stage' = [stage EXCEPT ![1] = 0]
    /\ exitc' = [exitc EXCEPT ![1] = -1]
    /\ euid' = [euid EXCEPT ![1] = 1001]
    /\ calls' = [calls EXCEPT ![1] = {}]
    /\ invoked' = [invoked EXCEPT ![1] = <<>>]
    /\ visits' = [visits EXCEPT ![1] = [i \in Inodes |-> 0]]
    /\ UNCHANGED <<env, meta>>

\* one process, run twice in succession
Next == (\E p \in {1} : Step(p)) \/ Invoke

Spec == Init /\ [][Next]_vars

(***************************************************************************)
(* Two invocations at once on the same agent directory (processes 1 and 2  *)
(* on file system 1), no call failing; process 3 then makes the single     *)
(* sequential run on an untouched copy (file system 2) to compare with.    *)
(***************************************************************************)
ConcEnvs ==
    {[lay |-> PlainLayout, order |-> FirstOrder, failset |-> {}, argc |-> 2, argv |-> AgentDir]}
    \cup {[lay |-> [special |-> "data", skind |-> "lnk_sib", inner |-> "loop"],
           order |-> o, failset |-> {}, argc |-> 2, argv |-> AgentDir] :
            o \in ReaddirOrders \ {FirstOrder}}
    \cup {[lay |-> l, order |-> FirstOrder, failset |-> {}, argc |-> 2, argv |-> AgentDir] :
            l \in {[special |-> "audit_keys", skind |-> "lnk_sib", inner |-> "out"],
                   [special |-> "logs", skind |-> "lnk_out", inner |-> "loop"]}}

InitConc ==
    /\ env \in ConcEnvs
    /\ meta = [w \in {1, 2} |-> InitMeta]
    /\ InitProcs({1, 2, 3})
    /\ run = 1
    /\ snap = [meta |-> InitMeta, exitc |-> -1]

\* process 3 starts when the two concurrent runs are over
Turn(p) == p = 3 => (pc[1] = "done" /\ pc[2] = "done")

NextConc ==
    \E p \in {1, 2, 3} :
        \/ Turn(p) /\ MainArgs(p)
        \/ Turn(p) /\ MainStat(p)
        \/ Turn(p) /\ MainSetuid(p)
        \/ Turn(p) /\ MainCall(p)
        \/ Turn(p) /\ MainReport(p)
        \/ Turn(p) /\ FixChmod(p)
        \/ Turn(p) /\ FixChown(p)
        \/ Turn(p) /\ FixOpendir(p)
        \/ Turn(p) /\ FixReaddir(p)
        \/ Turn(p) /\ EntryLstat(p)
        \/ Turn(p) /\ EntryLchown(p)
        \/ Turn(p) /\ EntryMode(p)

SpecConc == InitConc /\ [][NextConc]_vars

(***************************************************************************)
(* Vocabulary of the properties.                                           *)
(***************************************************************************)
WriteOps == {"chmod", "chown", "lchown"}
NameSet == {"file", "link", "sub", "db", "data", "data_archive", "logs", "config",
            "audit_keys", ".secrets", "a1", "agents", "ciris", "opt", "srv"}

StartsWith(s, pre) == Len(s) >= Len(pre) /\ SubSeq(s, 1, Len(pre)) = pre

TopPath(i) == Join(env.argv, SubNames[i])
TopObj(i) == Resolve(env.lay, TopPath(i), TRUE)
Escalated == Rec("setuid", <<>>, Nil, TRUE) \in calls[1]
Finished == pc[1] = "done"

RECURSIVE Below(_, _)
\* d and everything beneath directory d in the real tree (symlinks are leaves)
Below(lay, d) ==
    IF Kind(lay, d) # "dir" THEN {d}
    ELSE {d} \cup UNION {Below(lay, Lookup(lay, d, n)) :
                            n \in {m \in NameSet : Lookup(lay, d, m) # Nil}}

\* the i-th subdirectory and its tree carry the modes of the policy table
Normalized(i) ==
    /\ TopObj(i) # Nil
    /\ meta[1][TopObj(i)].mode = TopMode(i)
    /\ \A o \in Below(env.lay, TopObj(i)) :
        /\ Kind(env.lay, o) = "dir" => meta[1][o].mode = TopMode(i)
        /\ Kind(env.lay, o) = "reg" /\ o # TopObj(i) => meta[1][o].mode = FileMode(TopMode(i))

\* C1: chmod, chown and lchown are called only after argc = 2, the prefix check,
\* stat and S_ISDIR, and a successful setuid(0); an argument without the prefix
\* leads to exit code 1 with no setuid call and nothing written.
C1_FailsClosed ==
    /\ (\E c \in calls[1] : c.op \in WriteOps) =>
            /\ env.argc = 2
            /\ StartsWith(env.argv, AGENT_BASE_PATH)
            /\ Kind(env.lay, Resolve(env.lay, env.argv, TRUE)) = "dir"
            /\ Escalated
    /\ ~StartsWith(env.argv, AGENT_BASE_PATH) =>
            /\ \A c \in calls[1] : c.op \notin WriteOps \cup {"setuid"}
            /\ meta[1] = snap.meta
            /\ Finished => exitc[1] = 1

C1_Witness ==
    /\ Finished /\ run = 2 /\ exitc[1] = 1
    /\ env.argc = 2 /\ env.argv = <<"/", "opt", "/", "ciris", "/", "agents">>

\* C2: every object whose mode or owner the run changes lies under
\* /opt/ciris/agents/.
C2_OnlyUnderBase ==
    \A c \in calls[1] : (c.op \in WriteOps /\ c.ok) => UnderBase(c.obj)

\* C3: after exit code 0 each of the six subdirectories has its directory mode,
\* every directory beneath it too, every regular file beneath it the file mode,
\* and every object touched is owned by 1000:1000.
C3_ExitZeroMeansNormalized ==
    (Finished /\ exitc[1] = 0) =>
        /\ \A i \in 1..Len(SubNames) : Normalized(i)
        /\ \A c \in calls[1] : (c.op \in WriteOps /\ c.ok) =>
                meta[1][c.obj].uid = CONTAINER_UID /\ meta[1][c.obj].gid = CONTAINER_GID

\* C4: a failed lstat, lchown, chmod or chown anywhere in the run makes the run,
\* after all six subdirectories were attempted, end with exit code 1.
C4_ErrorsAccumulate ==
    (Finished /\ Escalated
        /\ \E c \in calls[1] : c.op \in {"lstat", "lchown", "chmod", "chown"} /\ ~c.ok) =>
        Len(invoked[1]) = Len(SubNames) /\ exitc[1] = 1

\* C5: with exactly one of the six subdirectories missing, the normaliser is still
\* invoked on all six paths in the fixed order, each of the other five gets its
\* chmod and, unless the environment makes a call fail, ends normalised, and the
\* exit code is 1.
C5_MissingOneContinues ==
    (Finished /\ Escalated /\ env.argv = AgentDir /\ env.lay.skind = "missing") =>
        /\ invoked[1] = [i \in 1..Len(SubNames) |-> TopPath(i)]
        /\ exitc[1] = 1
        /\ \A i \in 1..Len(SubNames) : SubNames[i] # env.lay.special =>
            /\ \E c \in calls[1] : c.op = "chmod" /\ c.path = TopPath(i)
            /\ env.failset = {} => Normalized(i) /\ meta[1][TopObj(i)].uid = CONTAINER_UID

C5_Witness ==
    /\ Finished /\ Escalated /\ env.argv = AgentDir /\ env.failset = {}
    /\ env.lay.skind = "missing" /\ env.lay.special = "logs"
    /\ Len(invoked[1]) = Len(SubNames) /\ exitc[1] = 1
    /\ meta[1][FileAt("audit_keys", 1)].mode = Oct(6, 0, 0)

\* a symlink found as an entry gets lchown on the link itself, and neither chmod
\* nor opendir is ever called on its path
EntrySymlinksKept ==
    \A c \in calls[1] : (c.op = "lstat" /\ c.ok /\ Kind(env.lay, c.obj) = "lnk") =>
        /\ \A d \in calls[1] : d.path = c.path => d.op \in {"lstat", "lchown"}
        /\ \A d \in calls[1] : (d.op = "lchown" /\ d.path = c.path) => d.obj = c.obj
        /\ Finished => \E d \in calls[1] : d.op = "lchown" /\ d.path = c.path

\* no real directory is opened more than once in a run
DirsOpenedOnce == \A i \in Inodes : visits[1][i] <= 1

C7_Idempotent ==
    (Finished /\ run = 2) => (meta[1] = snap.meta /\ exitc[1] = snap.exitc)

C7_Witness ==
    /\ Finished /\ run = 2 /\ exitc[1] = 0
    /\ env.failset # {}
    /\ meta[1][FileAt("audit_keys", 1)].mode = Oct(6, 0, 0)
    /\ meta[1][FileAt("data", 1)].mode = Oct(7, 7, 7)

\* C8: when two concurrent runs on the same agent directory have both finished,
\* modes and owners are those a single sequential run produces.
C8_Converges ==
    (\A p \in {1, 2, 3} : pc[p] = "done") => meta[1] = meta[2]

C8_Witness ==
    /\ \A p \in {1, 2, 3} : pc[p] = "done" /\ exitc[p] = 0
    /\ env.lay.skind = "lnk_sib"
    /\ meta[1][Top("audit_keys")].mode = Oct(7, 0, 0)
    /\ meta[1][FileAt("audit_keys", 1)].uid = CONTAINER_UID

\* C9 as stated: a call of the normaliser on a directory that does not exist or
\* cannot be opened returns 0, and a missing subdirectory alone does not make the
\* run fail.
C9_MissingIsSuccess ==
    /\ \A c \in calls[1] : c.op = "ret" =>
        ((Resolve(env.lay, c.path, TRUE) = Nil
            \/ \E d \in calls[1] : d.op = "opendir" /\ d.path = c.path /\ ~d.ok) => c.ok)
    /\ (Finished /\ Escalated /\ env.lay.skind = "missing" /\ env.failset = {}
            /\ env.argv = AgentDir) => exitc[1] = 0

\* C9 amended: a call whose opendir fails (after chmod and chown succeeded)
\* returns 0; a call on a path that does not exist returns -1 and the run then
\* exits with code 1.
C9_OnlyOpendirFailureIsSuccess ==
    /\ \A c \in calls[1] : c.op = "ret" =>
        /\ (\E d \in calls[1] : d.op = "opendir" /\ d.path = c.path /\ ~d.ok) => c.ok
        /\ Resolve(env.lay, c.path, TRUE) = Nil => ~c.ok
    /\ (Finished /\ Escalated /\ \E i \in 1..Len(SubNames) : TopObj(i) = Nil) => exitc[1] = 1

C9_Witness ==
    /\ Finished /\ exitc[1] = 0
    /\ env.lay.skind = "reg"
    /\ \E c \in calls[1] : c.op = "opendir" /\ ~c.ok /\ c.path = TopPath(1)
    /\ Rec("ret", TopPath(1), Nil, TRUE) \in calls[1]

\* both chmod and chown of the i-th subdirectory path itself succeeded
TopOK(i) ==
    /\ Rec("chmod", TopPath(i), TopObj(i), TRUE) \in calls[1]
    /\ Rec("chown", TopPath(i), TopObj(i), TRUE) \in calls[1]

\* C10: once validation and escalation succeeded the exit code is 0 exactly when
\* chmod and chown of each of the six subdirectory paths succeeded, whatever
\* happened below; after a failed top-level chmod nothing else is called on that
\* subdirectory or below it.
C10_ExitCodeIsTopLevel ==
    (Finished /\ Escalated) =>
        /\ exitc[1] = 0 <=> \A i \in 1..Len(SubNames) : TopOK(i)
        /\ \A i \in 1..Len(SubNames) :
            (\E c \in calls[1] : c.op = "chmod" /\ c.path = TopPath(i) /\ ~c.ok) =>
                \A d \in calls[1] : StartsWith(d.path, TopPath(i)) =>
                    (d.path = TopPath(i) /\ d.op \in {"chmod", "ret"})

C10_Witness ==
    /\ Finished /\ Escalated /\ exitc[1] = 0
    /\ \A i \in 1..Len(SubNames) : TopOK(i)
    /\ \E c \in calls[1] : c.op = "ret" /\ ~c.ok

====
